---- MODULE Spec2Model ----
(***************************************************************************)
(* html-textify: preserveFormat (src/utils/preserveFormat.ts), wrapByWords *)
(* (utils/wrapByWords) and textify, the entry point of the package.        *)
(*                                                                         *)
(* A JavaScript string is modelled as a sequence of one-character strings, *)
(* so that every regular expression of the source is matched character by  *)
(* character.  Each String.prototype.replace(/re/g, ...) call is the       *)
(* operator ReplaceAll applied to a matcher (the length of the leftmost    *)
(* match of the regular expression at a position, 0 if none) and to the    *)
(* replacement callback.                                                   *)
(***************************************************************************)
EXTENDS Integers, Sequences, FiniteSets, TLC

VARIABLES
  pc,                 \* position in the running function
  input,              \* the html argument as the caller passed it
  html,               \* preserveFormat: the working text (reassigned by every pass)
  ignoreTags,         \* the ignoreTags argument (set of tag names)
  preserveFormatting, \* textify: the preserveFormatting argument
  wrapWords,          \* textify: the wrapWords argument, <<>> when undefined, <<n>> otherwise
  wrapLength,         \* textify: the wrapLength argument, <<>> when undefined, <<n>> otherwise
  wrapper,            \* textify: the wrapper the call went through
  text,               \* wrapByWords: the text argument
  count,              \* wrapByWords: the count argument
  output,             \* the value returned
  thrown              \* the error thrown, "none" if none

vars == <<pc, input, html, ignoreTags, preserveFormatting, wrapWords, wrapLength,
          wrapper, text, count, output, thrown>>

(***************************************************************************)
(* Characters                                                              *)
(***************************************************************************)

\* [a-z]
Letters ==
  {"a", "b", "c", "d", "e", "f", "g", "h", "i", "j", "k", "l", "m",
   "n", "o", "p", "q", "r", "s", "t", "u", "v", "w", "x", "y", "z"}

\* [0-9]
Digits == {"0", "1", "2", "3", "4", "5", "6", "7", "8", "9"}

\* the lower-case letter of every upper-case letter
LowerMap ==
  [c \in {"A", "B", "C", "D", "E", "F", "G", "H", "I", "J", "K", "L", "M",
          "N", "O", "P", "Q", "R", "S", "T", "U", "V", "W", "X", "Y", "Z"} |->
     CASE c = "A" -> "a" [] c = "B" -> "b" [] c = "C" -> "c" [] c = "D" -> "d"
       [] c = "E" -> "e" [] c = "F" -> "f" [] c = "G" -> "g" [] c = "H" -> "h"
       [] c = "I" -> "i" [] c = "J" -> "j" [] c = "K" -> "k" [] c = "L" -> "l"
       [] c = "M" -> "m" [] c = "N" -> "n" [] c = "O" -> "o" [] c = "P" -> "p"
       [] c = "Q" -> "q" [] c = "R" -> "r" [] c = "S" -> "s" [] c = "T" -> "t"
       [] c = "U" -> "u" [] c = "V" -> "v" [] c = "W" -> "w" [] c = "X" -> "x"
       [] c = "Y" -> "y" [] c = "Z" -> "z"]

\* one character of String.prototype.toLowerCase, and of a match under the i flag
LowerChar(c) == IF c \in DOMAIN LowerMap THEN LowerMap[c] ELSE c

\* String.prototype.toLowerCase
ToLowerCase(s) == [k \in 1..Len(s) |-> LowerChar(s[k])]

\* \s of a regular expression, and the characters String.prototype.trim removes
WhiteSpace == {" ", "\t", "\n", "\r", "\f"}

\* the characters the dot of a regular expression does not match without the s flag
LineTerminators == {"\n", "\r"}

\* [a-z0-9] under the i flag
AlnumChars == Letters \cup Digits \cup DOMAIN LowerMap

IsAlnum(c) == c \in AlnumChars

\* \w: what \b tells apart from the rest
IsWordChar(c) == IsAlnum(c) \/ c = "_"

(***************************************************************************)
(* Strings                                                                 *)
(***************************************************************************)

\* s.slice(from - 1, to): the characters from..to
Slice(s, from, to) == IF from > to THEN <<>> ELSE SubSeq(s, from, to)

\* the literal lit (lower case) stands at position i of s, under the i flag
MatchLit(s, i, lit) ==
  /\ i + Len(lit) - 1 <= Len(s)
  /\ \A k \in 1..Len(lit) : LowerChar(s[i + k - 1]) = lit[k]

\* (.*?) followed by one of the literals lits: the first position j >= from
\* where one of them stands, the dot not crossing a line terminator unless
\* dotAll (the s flag); 0 when there is none
LazyFind(s, from, lits, dotAll) ==
  LET found == {j \in from..Len(s) : \E lit \in lits : MatchLit(s, j, lit)}
      first == CHOOSE j \in found : \A k \in found : j <= k
  IN IF found = {} THEN 0
     ELSE IF ~dotAll /\ \E k \in from..(first - 1) : s[k] \in LineTerminators
     THEN 0
     ELSE first

\* the length of the run of characters of set S that starts at position i
RunLen(s, i, S) ==
  LET RECURSIVE run(_)
      run(j) == IF j <= Len(s) /\ s[j] \in S THEN 1 + run(j + 1) ELSE 0
  IN run(i)

\* String.prototype.replace with a global regular expression: Match(s, i) is
\* the length of the match that starts at i (0: none), Repl(s, i, m) what the
\* callback returns for it; the scan goes on behind the match
ReplaceAll(s, Match(_, _), Repl(_, _, _)) ==
  LET starts == {j \in 1..Len(s) : Match(s, j) > 0}
      RECURSIVE go(_)
      go(i) ==
        LET ahead == {j \in starts : j >= i}
            j     == CHOOSE j \in ahead : \A k \in ahead : j <= k
        IN IF ahead = {} THEN Slice(s, i, Len(s))
           ELSE Slice(s, i, j - 1) \o Repl(s, j, Match(s, j)) \o go(j + Match(s, j))
  IN go(1)

\* mutant: String.prototype.trimStart in the place of trim
TrimStartOnly(s) == Slice(s, RunLen(s, 1, WhiteSpace) + 1, Len(s))

\* String.prototype.trim
Trim(s) ==
  LET lead == RunLen(s, 1, WhiteSpace)
      RECURSIVE last(_)
      last(j) == IF j >= 1 /\ s[j] \in WhiteSpace THEN last(j - 1) ELSE j
  IN Slice(s, lead + 1, last(Len(s)))

\* String.prototype.split('\n')
SplitNewline(s) ==
  LET RECURSIVE split(_, _)
      split(i, cur) ==
        IF i > Len(s) THEN <<cur>>
        ELSE IF s[i] = "\n" THEN <<cur>> \o split(i + 1, <<>>)
        ELSE split(i + 1, Append(cur, s[i]))
  IN split(1, <<>>)

\* Array.prototype.join(sep)
Join(parts, sep) ==
  LET RECURSIVE join(_)
      join(k) ==
        IF k > Len(parts) THEN <<>>
        ELSE IF k = Len(parts) THEN parts[k]
        ELSE parts[k] \o sep \o join(k + 1)
  IN join(1)

\* the decimal digits of a template literal ${n}, n >= 0
NumberToString(n) ==
  LET digit(d) == CASE d = 0 -> "0" [] d = 1 -> "1" [] d = 2 -> "2" [] d = 3 -> "3"
                    [] d = 4 -> "4" [] d = 5 -> "5" [] d = 6 -> "6" [] d = 7 -> "7"
                    [] d = 8 -> "8" [] d = 9 -> "9"
      RECURSIVE str(_)
      str(k) == IF k < 10 THEN <<digit(k)>> ELSE str(k \div 10) \o <<digit(k % 10)>>
  IN str(n)

(***************************************************************************)
(* preserveFormat: the passes, in the order of the source                  *)
(***************************************************************************)

\* /<br\s*\/?>/gi at position i
BrMatch(s, i) ==
  IF ~MatchLit(s, i, <<"<", "b", "r">>) THEN 0
  ELSE LET ws    == RunLen(s, i + 3, WhiteSpace)
           slash == IF i + 3 + ws <= Len(s) /\ s[i + 3 + ws] = "/" THEN 1 ELSE 0
           close == i + 3 + ws + slash
       IN IF close <= Len(s) /\ s[close] = ">" THEN close - i + 1 ELSE 0

\* />\s+</g at position i
InterTagSpaceMatch(s, i) ==
  IF s[i] # ">" THEN 0
  ELSE LET ws == RunLen(s, i + 1, WhiteSpace)
       IN IF ws >= 1 /\ i + 1 + ws <= Len(s) /\ s[i + 1 + ws] = "<" THEN ws + 2 ELSE 0

\* html.replace(/>\s+</g, '><')
NormalizeSpaces(s) ==
  ReplaceAll(s, InterTagSpaceMatch, LAMBDA t, i, m : <<">", "<">>)

\* !ignoreTags.includes('br') ? html.replace(/<br\s*\/?>/gi, '\n') : html
ConvertBr(s, ig) ==
  IF <<"b", "r">> \notin ig
  THEN ReplaceAll(s, BrMatch, LAMBDA t, i, m : <<"\n">>)
  ELSE s

\* /<\/(h[1-6]|p)>/gi at position i
HeadingCloseMatch(s, i) ==
  IF ~MatchLit(s, i, <<"<", "/">>) THEN 0
  ELSE IF /\ i + 4 <= Len(s)
          /\ LowerChar(s[i + 2]) = "h"
          /\ s[i + 3] \in {"1", "2", "3", "4", "5", "6"}
          /\ s[i + 4] = ">" THEN 5
  ELSE IF i + 3 <= Len(s) /\ LowerChar(s[i + 2]) = "p" /\ s[i + 3] = ">" THEN 4
  ELSE 0

\* html.replace(/<\/(h[1-6]|p)>/gi, (match, tag) => ...)
HeadingsParagraphs(s, ig) ==
  ReplaceAll(s, HeadingCloseMatch,
             LAMBDA t, i, m :
               IF ToLowerCase(Slice(t, i + 2, i + m - 2)) \in ig
               THEN Slice(t, i, i + m - 1)
               ELSE <<"\n", "\n">>)

\* /<(b|strong)>(.*?)<\/\1>/gi and /<(i|em)>(.*?)<\/\1>/gi at position i, names
\* the alternatives in their order: [len, tag, content], len = 0 when none
PairMatch(s, i, names) ==
  LET RECURSIVE try(_)
      try(k) ==
        IF k > Len(names) THEN [len |-> 0, tag |-> <<>>, content |-> <<>>]
        ELSE LET open  == <<"<">> \o names[k] \o <<">">>
                 close == <<"<", "/">> \o names[k] \o <<">">>
                 from  == i + Len(open)
                 j     == IF MatchLit(s, i, open)
                          THEN LazyFind(s, from, {close}, FALSE) ELSE 0
             IN IF j > 0
                THEN [len     |-> j + Len(close) - i,
                      tag     |-> Slice(s, i + 1, i + Len(names[k])),
                      content |-> Slice(s, from, j - 1)]
                ELSE try(k + 1)
  IN try(1)

\* (b|strong)
BoldNames == << <<"b">>, <<"s", "t", "r", "o", "n", "g">> >>

\* (i|em)
ItalicNames == << <<"i">>, <<"e", "m">> >>

\* html.replace(/<(b|strong)>(.*?)<\/\1>/gi, (match, tag, content) => ...)
Bold(s, ig) ==
  ReplaceAll(s, LAMBDA t, i : PairMatch(t, i, BoldNames).len,
             LAMBDA t, i, m :
               LET g == PairMatch(t, i, BoldNames)
               IN IF ToLowerCase(g.tag) \in ig
                  THEN Slice(t, i, i + m - 1)
                  ELSE <<"*", "*">> \o g.content \o <<"*", "*">>)

\* html.replace(/<(i|em)>(.*?)<\/\1>/gi, (match, tag, content) => ...)
Italic(s, ig) ==
  ReplaceAll(s, LAMBDA t, i : PairMatch(t, i, ItalicNames).len,
             LAMBDA t, i, m :
               LET g == PairMatch(t, i, ItalicNames)
               IN IF ToLowerCase(g.tag) \in ig
                  THEN Slice(t, i, i + m - 1)
                  ELSE <<"*">> \o g.content \o <<"*">>)

\* /<a\s+href="(.*?)".*?>(.*?)<\/a>/gi at position i: [len, href, text],
\* len = 0 when none
LinkMatch(s, i) ==
  LET none  == [len |-> 0, href |-> <<>>, text |-> <<>>]
      ws    == RunLen(s, i + 2, WhiteSpace)
      from  == i + 2 + ws + 6
      quote == LazyFind(s, from, {<<"\"">>}, FALSE)
      gt    == IF quote > 0 THEN LazyFind(s, quote + 1, {<<">">>}, FALSE) ELSE 0
      end   == IF gt > 0
               THEN LazyFind(s, gt + 1, {<<"<", "/", "a", ">">>}, FALSE) ELSE 0
  IN IF /\ MatchLit(s, i, <<"<", "a">>)
        /\ ws >= 1
        /\ MatchLit(s, i + 2 + ws, <<"h", "r", "e", "f", "=", "\"">>)
        /\ end > 0
     THEN [len  |-> end + 4 - i,
           href |-> Slice(s, from, quote - 1),
           text |-> Slice(s, gt + 1, end - 1)]
     ELSE none

\* !ignoreTags.includes('a') ? html.replace(/<a\s+href="(.*?)".*?>(.*?)<\/a>/gi, ...) : html
Links(s, ig) ==
  IF <<"a">> \notin ig
  THEN ReplaceAll(s, LAMBDA t, i : LinkMatch(t, i).len,
                  LAMBDA t, i, m :
                    LET g == LinkMatch(t, i)
                    IN <<"[">> \o g.text \o <<"]", "(">> \o g.href \o <<")">>)
  ELSE s

\* /<name>(.*?)<\/name>/ at position i, closes the set of closing tags that
\* end it: the position of the closing tag, 0 when there is no match
BlockClose(s, i, open, closes, dotAll) ==
  IF MatchLit(s, i, open) THEN LazyFind(s, i + Len(open), closes, dotAll) ELSE 0

LiOpen == <<"<", "l", "i", ">">>

LiClose == <<"<", "/", "l", "i", ">">>

\* /<li>(.*?)<\/li>/gi at position i: the length of the match
LiMatch(s, i) ==
  LET j == BlockClose(s, i, LiOpen, {LiClose}, FALSE)
  IN IF j > 0 THEN j + 5 - i ELSE 0

\* let counter = 0; content.replace(/<li>(.*?)<\/li>/gi, (liMatch, liContent) =>
\*   ignoreTags.includes('li') ? liMatch : `${++counter}. ${liContent}\n`)
OrderedItems(content, ig) ==
  LET RECURSIVE go(_, _)
      go(i, counter) ==
        IF i > Len(content) THEN <<>>
        ELSE LET m == LiMatch(content, i)
             IN IF m = 0 THEN <<content[i]>> \o go(i + 1, counter)
                ELSE IF <<"l", "i">> \in ig
                THEN Slice(content, i, i + m - 1) \o go(i + m, counter)
                ELSE NumberToString(counter + 1) \o <<".", " ">>
                       \o Slice(content, i + 4, i + m - 6) \o <<"\n">>
                       \o go(i + m, counter + 1)
  IN go(1, 0)

\* content.replace(/<li>(.*?)<\/li>/gi, (liMatch, liContent) =>
\*   ignoreTags.includes('li') ? liMatch : `- ${liContent}\n`)
UnorderedItems(content, ig) ==
  ReplaceAll(content, LiMatch,
             LAMBDA t, i, m :
               IF <<"l", "i">> \in ig THEN Slice(t, i, i + m - 1)
               ELSE <<"-", " ">> \o Slice(t, i + 4, i + m - 6) \o <<"\n">>)

OlOpen == <<"<", "o", "l", ">">>

OlClose == <<"<", "/", "o", "l", ">">>

\* /<ol>(.*?)<\/ol>/gis at position i: the length of the match
OlMatch(s, i) ==
  LET j == BlockClose(s, i, OlOpen, {OlClose}, TRUE)
  IN IF j > 0 THEN j + 5 - i ELSE 0

\* html.replace(/<ol>(.*?)<\/ol>/gis, (match, content) => ...)
OrderedLists(s, ig) ==
  ReplaceAll(s, OlMatch,
             LAMBDA t, i, m :
               IF <<"o", "l">> \in ig THEN Slice(t, i, i + m - 1)
               ELSE OrderedItems(Slice(t, i + 4, i + m - 6), ig))

UlOpen == <<"<", "u", "l", ">">>

UlClose == <<"<", "/", "u", "l", ">">>

\* /<ul>(.*?)<\/ul>/gis at position i: the length of the match
UlMatch(s, i) ==
  LET j == BlockClose(s, i, UlOpen, {UlClose}, TRUE)
  IN IF j > 0 THEN j + 5 - i ELSE 0

\* html.replace(/<ul>(.*?)<\/ul>/gis, (match, content) => ...)
UnorderedLists(s, ig) ==
  ReplaceAll(s, UlMatch,
             LAMBDA t, i, m :
               IF <<"u", "l">> \in ig THEN Slice(t, i, i + m - 1)
               ELSE UnorderedItems(Slice(t, i + 4, i + m - 6), ig))

BlockquoteOpen == <<"<", "b", "l", "o", "c", "k", "q", "u", "o", "t", "e", ">">>

BlockquoteClose == <<"<", "/", "b", "l", "o", "c", "k", "q", "u", "o", "t", "e", ">">>

\* /<blockquote>(.*?)<\/blockquote>/gis at position i: the length of the match
BlockquoteMatch(s, i) ==
  LET j == BlockClose(s, i, BlockquoteOpen, {BlockquoteClose}, TRUE)
  IN IF j > 0 THEN j + 13 - i ELSE 0

\* lines.map((line) => `> ${line.trim()}`)
QuoteLines(lines) == [k \in 1..Len(lines) |-> <<">", " ">> \o Trim(lines[k])]

\* content.replace(/<br\s*\/?>/gi, '\n').trim().split('\n')
\*   .map((line) => `> ${line.trim()}`).join('\n')
QuoteBlock(content) ==
  Join(QuoteLines(SplitNewline(Trim(
         ReplaceAll(content, BrMatch, LAMBDA t, i, m : <<"\n">>)))),
       <<"\n">>)

\* !ignoreTags.includes('blockquote')
\*   ? html.replace(/<blockquote>(.*?)<\/blockquote>/gis, (_m, content) => ...) : html
Blockquotes(s, ig) ==
  IF <<"b", "l", "o", "c", "k", "q", "u", "o", "t", "e">> \notin ig
  THEN ReplaceAll(s, BlockquoteMatch,
                  LAMBDA t, i, m : QuoteBlock(Slice(t, i + 12, i + m - 14)))
  ELSE s

\* /<t[dh]>(.*?)<\/t[dh]>/gi at position i: the length of the match
CellMatch(s, i) ==
  LET opens == {<<"<", "t", "d", ">">>, <<"<", "t", "h", ">">>}
      j == IF \E o \in opens : MatchLit(s, i, o)
           THEN LazyFind(s, i + 4, {<<"<", "/", "t", "d", ">">>,
                                    <<"<", "/", "t", "h", ">">>}, FALSE)
           ELSE 0
  IN IF j > 0 THEN j + 5 - i ELSE 0

\* .replace(/\t$/, '')
StripTrailingTab(s) ==
  IF Len(s) > 0 /\ s[Len(s)] = "\t" THEN Slice(s, 1, Len(s) - 1) ELSE s

\* rowContent.replace(/<t[dh]>(.*?)<\/t[dh]>/gi, (cellMatch, cellContent) => ...)
\*   .trim().replace(/\t$/, '') + '\n'
TableRow(rowContent, ig) ==
  StripTrailingTab(Trim(
    ReplaceAll(rowContent, CellMatch,
               LAMBDA t, i, m :
                 IF <<"t", "d">> \in ig \/ <<"t", "h">> \in ig
                 THEN Slice(t, i, i + m - 1)
                 ELSE Slice(t, i + 4, i + m - 6) \o <<"\t">>))) \o <<"\n">>

TrOpen == <<"<", "t", "r", ">">>

TrClose == <<"<", "/", "t", "r", ">">>

\* /<tr>(.*?)<\/tr>/gi at position i: the length of the match
TrMatch(s, i) ==
  LET j == BlockClose(s, i, TrOpen, {TrClose}, FALSE)
  IN IF j > 0 THEN j + 5 - i ELSE 0

\* tableContent.replace(/<tr>(.*?)<\/tr>/gi, (trMatch, rowContent) => ...).trim()
TableRows(tableContent, ig) ==
  Trim(ReplaceAll(tableContent, TrMatch,
                  LAMBDA t, i, m :
                    IF <<"t", "r">> \in ig THEN Slice(t, i, i + m - 1)
                    ELSE TableRow(Slice(t, i + 4, i + m - 6), ig)))

TableOpen == <<"<", "t", "a", "b", "l", "e", ">">>

TableClose == <<"<", "/", "t", "a", "b", "l", "e", ">">>

\* /<table>(.*?)<\/table>/gis at position i: the length of the match
TableMatch(s, i) ==
  LET j == BlockClose(s, i, TableOpen, {TableClose}, TRUE)
  IN IF j > 0 THEN j + 8 - i ELSE 0

\* html.replace(/<table>(.*?)<\/table>/gis, (match, tableContent) => ...)
Tables(s, ig) ==
  ReplaceAll(s, TableMatch,
             LAMBDA t, i, m :
               IF <<"t", "a", "b", "l", "e">> \in ig THEN Slice(t, i, i + m - 1)
               ELSE TableRows(Slice(t, i + 7, i + m - 9), ig))

\* /<[^>]+>/g at position i: the length of the match
AnyTagMatch(s, i) ==
  LET gt == IF s[i] = "<" THEN LazyFind(s, i + 1, {<<">">>}, TRUE) ELSE 0
  IN IF gt >= i + 2 THEN gt - i + 1 ELSE 0

\* /<\/?([a-z0-9]+)[^>]*>/gi at position i: [len, tag], len = 0 when none
NamedTagMatch(s, i) ==
  LET slash == IF i + 1 <= Len(s) /\ s[i + 1] = "/" THEN 1 ELSE 0
      name  == RunLen(s, i + 1 + slash, AlnumChars)
      gt    == LazyFind(s, i + 1 + slash + name, {<<">">>}, TRUE)
  IN IF s[i] = "<" /\ name >= 1 /\ gt > 0
     THEN [len |-> gt - i + 1, tag |-> Slice(s, i + 1 + slash, i + slash + name)]
     ELSE [len |-> 0, tag |-> <<>>]

\* if (ignoreTags.length === 0) html.replace(/<[^>]+>/g, '')
\* else html.replace(/<\/?([a-z0-9]+)[^>]*>/gi, (match, tag) => ...)
RemoveTags(s, ig) ==
  IF ig = {}
  THEN ReplaceAll(s, AnyTagMatch, LAMBDA t, i, m : <<>>)
  ELSE ReplaceAll(s, LAMBDA t, i : NamedTagMatch(t, i).len,
                  LAMBDA t, i, m :
                    IF ToLowerCase(NamedTagMatch(t, i).tag) \in ig
                    THEN Slice(t, i, i + m - 1)
                    ELSE <<>>)

\* .replace(/&name;/gi, char) for one entity
DecodeEntity(s, entity, char) ==
  ReplaceAll(s, LAMBDA t, i : IF MatchLit(t, i, entity) THEN Len(entity) ELSE 0,
             LAMBDA t, i, m : <<char>>)

\* .replace(/&nbsp;/gi, ' ').replace(/&amp;/gi, '&').replace(/&lt;/gi, '<').replace(/&gt;/gi, '>')
DecodeEntities(s) ==
  DecodeEntity(
    DecodeEntity(
      DecodeEntity(
        DecodeEntity(s, <<"&", "n", "b", "s", "p", ";">>, " "),
        <<"&", "a", "m", "p", ";">>, "&"),
      <<"&", "l", "t", ";">>, "<"),
    <<"&", "g", "t", ";">>, ">")

\* /\n{3,}/g at position i: the length of the match
NewlineRunMatch(s, i) ==
  LET n == RunLen(s, i, {"\n"}) IN IF n >= 3 THEN n ELSE 0

\* mutant: /\n{4,}/g, a run of exactly three newlines is left
CollapseFourOrMore(s) ==
  Trim(ReplaceAll(s, LAMBDA t, i : IF NewlineRunMatch(t, i) >= 4
                                   THEN NewlineRunMatch(t, i) ELSE 0,
                  LAMBDA t, i, m : <<"\n", "\n">>))

\* html.replace(/\n{3,}/g, '\n\n').trim()
CollapseNewlines(s) ==
  Trim(ReplaceAll(s, NewlineRunMatch, LAMBDA t, i, m : <<"\n", "\n">>))

\* preserveFormat({ html, ignoreTags }) as a function of its arguments
preserveFormat(h, ig) ==
  IF h = <<>> THEN <<>>
  ELSE CollapseNewlines(DecodeEntities(RemoveTags(Tables(Blockquotes(
         UnorderedLists(OrderedLists(Links(Italic(Bold(HeadingsParagraphs(
           ConvertBr(NormalizeSpaces(h), ig), ig), ig), ig), ig), ig), ig), ig),
         ig), ig)))

(***************************************************************************)
(* wrapByWords, wrapByLength, textify                                      *)
(***************************************************************************)

\* String.prototype.split(/\s+/): the texts between the runs of white space
SplitWhiteSpace(s) ==
  LET RECURSIVE split(_, _)
      split(i, cur) ==
        IF i > Len(s) THEN <<cur>>
        ELSE IF s[i] \in WhiteSpace
        THEN <<cur>> \o split(i + RunLen(s, i, WhiteSpace), <<>>)
        ELSE split(i + 1, Append(cur, s[i]))
  IN split(1, <<>>)

\* mutant: words.slice(i + 1, i + count), the first word of every line dropped
LinesOfWordsSkippingOne(words, n) ==
  LET RECURSIVE loop(_)
      loop(i) ==
        IF i < Len(words)
        THEN <<Join(Slice(words, i + 2, IF i + n < Len(words) THEN i + n ELSE Len(words)),
                    <<" ">>)>> \o loop(i + n)
        ELSE <<>>
  IN loop(0)

\* for (let i = 0; i < words.length; i += count)
\*   lines.push(words.slice(i, i + count).join(' '))
LinesOfWords(words, n) ==
  LET RECURSIVE loop(_)
      loop(i) ==
        IF i < Len(words)
        THEN <<Join(Slice(words, i + 1, IF i + n < Len(words) THEN i + n ELSE Len(words)),
                    <<" ">>)>> \o loop(i + n)
        ELSE <<>>
  IN loop(0)

\* wrapByWords(text, count): what it returns, or the error it throws
wrapByWords(t, n) ==
  IF n <= 0
  THEN [thrown |-> "wrap count must be greater than 0", value |-> <<>>]
  ELSE [thrown |-> "none",
        value  |-> Join(LinesOfWords(SplitWhiteSpace(Trim(t)), n), <<"\n">>)]

\* the words of a split: its texts that are not empty
NonEmptyWords(parts) ==
  LET RECURSIVE keep(_)
      keep(k) == IF k > Len(parts) THEN <<>>
                 ELSE IF parts[k] = <<>> THEN keep(k + 1)
                 ELSE <<parts[k]>> \o keep(k + 1)
  IN keep(1)

\* wrapByLength(text, maxChars), the greedy wrap: a word goes on the current
\* line unless the line is not empty and the word with a space before it would
\* take the line over maxChars
wrapByLength(t, maxChars) ==
  LET words == NonEmptyWords(SplitWhiteSpace(t))
      RECURSIVE fill(_, _)
      fill(k, line) ==
        IF k > Len(words) THEN (IF line = <<>> THEN <<>> ELSE <<line>>)
        ELSE IF line = <<>> THEN fill(k + 1, words[k])
        ELSE IF Len(line) + 1 + Len(words[k]) > maxChars
        THEN <<line>> \o fill(k + 1, words[k])
        ELSE fill(k + 1, line \o <<" ">> \o words[k])
  IN Join(fill(1, <<>>), <<"\n">>)

\* /<\/?([a-z][a-z0-9-]*)\b[^>]*>/gi at position i: [len, tag], len = 0 when
\* none; the name is the longest run of letters, digits and hyphens after
\* which \b holds
StripTagMatch(s, i) ==
  LET slash == IF i + 1 <= Len(s) /\ s[i + 1] = "/" THEN 1 ELSE 0
      start == i + 1 + slash
      run   == RunLen(s, start, AlnumChars \cup {"-"})
      boundary(n) == IsWordChar(s[start + n - 1])
                       # (start + n <= Len(s) /\ IsWordChar(s[start + n]))
      ends  == {n \in 1..run : boundary(n)}
      name  == IF ends = {} THEN 0 ELSE CHOOSE n \in ends : \A m \in ends : n >= m
      gt    == LazyFind(s, start + name, {<<">">>}, TRUE)
  IN IF /\ s[i] = "<"
        /\ start <= Len(s)
        /\ LowerChar(s[start]) \in Letters
        /\ name >= 1
        /\ gt > 0
     THEN [len |-> gt - i + 1, tag |-> Slice(s, start, start + name - 1)]
     ELSE [len |-> 0, tag |-> <<>>]

\* textify with preserveFormatting false:
\* if (ignoreTags.length === 0) output.replace(/<[^>]+>/g, '').trim()
\* else output.replace(/<\/?([a-z][a-z0-9-]*)\b[^>]*>/gi, (match, tag) =>
\*        IG.has(tag.toLowerCase()) ? match : '').trim()
StripTags(s, ig) ==
  IF ig = {}
  THEN Trim(ReplaceAll(s, AnyTagMatch, LAMBDA t, i, m : <<>>))
  ELSE Trim(ReplaceAll(s, LAMBDA t, i : StripTagMatch(t, i).len,
                       LAMBDA t, i, m :
                         IF ToLowerCase(StripTagMatch(t, i).tag)
                              \in {ToLowerCase(g) : g \in ig}
                         THEN Slice(t, i, i + m - 1)
                         ELSE <<>>))

\* mutant: the test `x !== undefined`
IsGiven(x) == x # <<>>

\* the test `x && x > 0` of an optional number: <<n>> is the number n, <<>> is
\* undefined (wrapWords && wrapWords > 0, wrapLength && wrapLength > 0)
IsPositive(x) == x # <<>> /\ x[1] # 0 /\ x[1] > 0

(***************************************************************************)
(* The calls: arguments drawn from bounded sets                            *)
(***************************************************************************)

\* the longest document, in fragments
MaxBlocks == 2

\* every concatenation of at most n texts of F
RECURSIVE Concats(_, _)
Concats(F, n) ==
  IF n = 0 THEN {<<>>}
  ELSE {<<>>} \cup {f \o d : f \in F, d \in Concats(F, n - 1)}

\* text, white space, line breaks, a paragraph, emphasis, a link whose href
\* holds an entity, a blockquote, a custom element, an entity, a list, an
\* element with an attribute, a heading followed by a line break
Fragments ==
  {<<"a">>,
   <<" ">>,
   <<"\n">>,
   <<"<", "b", "r", ">">>,
   <<"<", "B", "R", "/", ">">>,
   <<"<", "p", ">", "b", "<", "/", "p", ">">>,
   <<"<", "b", ">", "c", "<", "/", "b", ">">>,
   <<"<", "a", " ", "h", "r", "e", "f", "=", "\"", "u", "&", "a", "m", "p", ";", "v", "\"", ">", "d", "<", "/", "a", ">">>,
   <<"<", "b", "l", "o", "c", "k", "q", "u", "o", "t", "e", ">", "e", "<", "b", "r", ">", "f", "<", "/", "b", "l", "o", "c", "k", "q", "u", "o", "t", "e", ">">>,
   <<"<", "m", "y", "-", "t", "a", "g", ">", "g", "<", "/", "m", "y", "-", "t", "a", "g", ">">>,
   <<"&", "l", "t", ";">>,
   <<"<", "u", "l", ">", "<", "l", "i", ">", "h", "<", "/", "l", "i", ">", "<", "/", "u", "l", ">">>,
   <<"<", "d", "i", "v", " ", "c", "l", "a", "s", "s", "=", "\"", "k", "\"", ">", "i", "<", "/", "d", "i", "v", ">">>,
   <<"<", "h", "1", ">", "j", "<", "/", "h", "1", ">", "<", "b", "r", ">", "k">>}

Documents == Concats(Fragments, MaxBlocks)

IgnoreSets ==
  {{},
   {<<"b", "r">>},
   {<<"a">>},
   {<<"p">>, <<"h", "1">>},
   {<<"b">>},
   {<<"m", "y", "-", "t", "a", "g">>},
   {<<"m", "y">>},
   {<<"b", "l", "o", "c", "k", "q", "u", "o", "t", "e">>},
   {<<"l", "i">>},
   {<<"d", "i", "v">>, <<"b", "r">>}}

\* the variables of the functions that are not running
Idle(vs) ==
  /\ "html" \in vs \/ (html = <<>> /\ input = <<>> /\ ignoreTags = {})
  /\ "textify" \in vs \/ (preserveFormatting = TRUE /\ wrapWords = <<>>
                          /\ wrapLength = <<>> /\ wrapper = "none")
  /\ "wrap" \in vs \/ (text = <<>> /\ count = 0)
  /\ output = <<>>
  /\ thrown = "none"

\* a call preserveFormat({ html, ignoreTags })
Init ==
  /\ pc = "check"
  /\ html \in Documents
  /\ input = html
  /\ ignoreTags \in IgnoreSets
  /\ Idle({"html"})

(***************************************************************************)
(* preserveFormat, statement by statement                                  *)
(***************************************************************************)

\* what a statement of preserveFormat leaves alone
Frame ==
  UNCHANGED <<input, ignoreTags, preserveFormatting, wrapWords, wrapLength,
              wrapper, text, count, output, thrown>>

\* if (!html) return ''
CheckEmpty ==
  /\ pc = "check"
  /\ IF html = <<>>
     THEN pc' = "done" /\ output' = <<>>
     ELSE pc' = "normalize" /\ output' = output
  /\ UNCHANGED <<input, html, ignoreTags, preserveFormatting, wrapWords,
                 wrapLength, wrapper, text, count, thrown>>

\* html = html.replace(/>\s+</g, '><')
PassNormalize ==
  /\ pc = "normalize"
  /\ html' = NormalizeSpaces(html)
  /\ pc' = "br"
  /\ Frame

\* html = !ignoreTags.includes('br') ? html.replace(/<br\s*\/?>/gi, '\n') : html
PassBr ==
  /\ pc = "br"
  /\ html' = ConvertBr(html, ignoreTags)
  /\ pc' = "headings"
  /\ Frame

\* html = html.replace(/<\/(h[1-6]|p)>/gi, ...)
PassHeadings ==
  /\ pc = "headings"
  /\ html' = HeadingsParagraphs(html, ignoreTags)
  /\ pc' = "bold"
  /\ Frame

\* html = html.replace(/<(b|strong)>(.*?)<\/\1>/gi, ...)
PassBold ==
  /\ pc = "bold"
  /\ html' = Bold(html, ignoreTags)
  /\ pc' = "italic"
  /\ Frame

\* html = html.replace(/<(i|em)>(.*?)<\/\1>/gi, ...)
PassItalic ==
  /\ pc = "italic"
  /\ html' = Italic(html, ignoreTags)
  /\ pc' = "links"
  /\ Frame

\* html = !ignoreTags.includes('a') ? html.replace(/<a\s+href="(.*?)".*?>(.*?)<\/a>/gi, ...) : html
PassLinks ==
  /\ pc = "links"
  /\ html' = Links(html, ignoreTags)
  /\ pc' = "ol"
  /\ Frame

\* html = html.replace(/<ol>(.*?)<\/ol>/gis, ...)
PassOrderedLists ==
  /\ pc = "ol"
  /\ html' = OrderedLists(html, ignoreTags)
  /\ pc' = "ul"
  /\ Frame

\* html = html.replace(/<ul>(.*?)<\/ul>/gis, ...)
PassUnorderedLists ==
  /\ pc = "ul"
  /\ html' = UnorderedLists(html, ignoreTags)
  /\ pc' = "blockquote"
  /\ Frame

\* html = !ignoreTags.includes('blockquote') ? html.replace(/<blockquote>(.*?)<\/blockquote>/gis, ...) : html
PassBlockquotes ==
  /\ pc = "blockquote"
  /\ html' = Blockquotes(html, ignoreTags)
  /\ pc' = "table"
  /\ Frame

\* html = html.replace(/<table>(.*?)<\/table>/gis, ...)
PassTables ==
  /\ pc = "table"
  /\ html' = Tables(html, ignoreTags)
  /\ pc' = "strip"
  /\ Frame

\* remove all remaining tags
PassRemoveTags ==
  /\ pc = "strip"
  /\ html' = RemoveTags(html, ignoreTags)
  /\ pc' = "decode"
  /\ Frame

\* decode common HTML entities
PassDecodeEntities ==
  /\ pc = "decode"
  /\ html' = DecodeEntities(html)
  /\ pc' = "collapse"
  /\ Frame

\* html = html.replace(/\n{3,}/g, '\n\n').trim()
PassCollapseNewlines ==
  /\ pc = "collapse"
  /\ html' = CollapseNewlines(html)
  /\ pc' = "return"
  /\ Frame

\* return html
Return ==
  /\ pc = "return"
  /\ output' = html
  /\ pc' = "done"
  /\ UNCHANGED <<input, html, ignoreTags, preserveFormatting, wrapWords,
                 wrapLength, wrapper, text, count, thrown>>

Next ==
  \/ CheckEmpty
  \/ PassNormalize
  \/ PassBr
  \/ PassHeadings
  \/ PassBold
  \/ PassItalic
  \/ PassLinks
  \/ PassOrderedLists
  \/ PassUnorderedLists
  \/ PassBlockquotes
  \/ PassTables
  \/ PassRemoveTags
  \/ PassDecodeEntities
  \/ PassCollapseNewlines
  \/ Return

Spec == Init /\ [][Next]_vars

(***************************************************************************)
(* Tags, as the claims speak of them                                       *)
(***************************************************************************)

\* the tag that starts at position i of s: "<", an optional "/", a name (a
\* letter, then letters, digits and hyphens), then everything up to the next
\* ">", with no "<" before it; [len, name] with the name in lower case,
\* len = 0 when no tag starts here
TagAt(s, i) ==
  LET slash == IF i + 1 <= Len(s) /\ s[i + 1] = "/" THEN 1 ELSE 0
      start == i + 1 + slash
      n     == RunLen(s, start, AlnumChars \cup {"-"})
      gt    == LazyFind(s, start + n, {<<">">>, <<"<">>}, TRUE)
  IN IF /\ s[i] = "<"
        /\ n >= 1
        /\ LowerChar(s[start]) \in Letters
        /\ gt > 0
        /\ s[gt] = ">"
     THEN [len |-> gt - i + 1, name |-> ToLowerCase(Slice(s, start, start + n - 1))]
     ELSE [len |-> 0, name |-> <<>>]

\* the tags of s whose name is in ig, as written, in their order
IgnoredTagsOf(s, ig) ==
  LET RECURSIVE go(_)
      go(i) ==
        IF i > Len(s) THEN <<>>
        ELSE LET t == TagAt(s, i)
             IN IF t.len = 0 THEN go(i + 1)
                ELSE IF t.name \in ig THEN <<Slice(s, i, i + t.len - 1)>> \o go(i + t.len)
                ELSE go(i + t.len)
  IN go(1)

\* s without its tags, those named in ig left as written
WithoutTags(s, ig) ==
  LET RECURSIVE go(_)
      go(i) ==
        IF i > Len(s) THEN <<>>
        ELSE LET t == TagAt(s, i)
             IN IF t.len = 0 THEN <<s[i]>> \o go(i + 1)
                ELSE IF t.name \in ig THEN Slice(s, i, i + t.len - 1) \o go(i + t.len)
                ELSE go(i + t.len)
  IN go(1)

\* the elements of a occur in b, in the order of a
IsSubsequence(a, b) ==
  LET RECURSIVE sub(_, _)
      sub(i, j) ==
        IF i > Len(a) THEN TRUE
        ELSE IF j > Len(b) THEN FALSE
        ELSE IF a[i] = b[j] THEN sub(i + 1, j + 1)
        ELSE sub(i, j + 1)
  IN sub(1, 1)

\* s holds three newlines in a row
HasTripleNewline(s) ==
  \E i \in 1..(Len(s) - 2) : s[i] = "\n" /\ s[i + 1] = "\n" /\ s[i + 2] = "\n"

(***************************************************************************)
(* Claims on preserveFormat over Documents                                 *)
(***************************************************************************)

\* C1: every tag of the input whose name is in the ignore set stands in the
\* output of preserveFormat as it was written in the input (same characters,
\* same order): no pass rewrites or removes it.
C1_IgnoredTagsByteIdentical ==
  pc = "done" =>
    IsSubsequence(IgnoredTagsOf(input, ignoreTags), IgnoredTagsOf(output, ignoreTags))

\* C2: the strip step of preserveFormat removes every tag whose name is not in
\* the ignore set and leaves every tag whose name is in it as written.
C2_StripRemovesExactlyTheOthers ==
  [][pc = "strip" => html' = WithoutTags(html, ignoreTags)]_vars

\* C3: the output of preserveFormat never holds three newlines in a row and
\* neither starts nor ends with white space.
C3_NoTripleNewline ==
  pc = "done" =>
    /\ ~HasTripleNewline(output)
    /\ output # <<>> => (output[1] \notin WhiteSpace /\ output[Len(output)] \notin WhiteSpace)

\* C3 witness: a heading followed by a line break and text gave three newlines
\* in a row, and the call returned two.
C3_Witness ==
  /\ pc = "done"
  /\ input = <<"<", "h", "1", ">", "j", "<", "/", "h", "1", ">", "<", "b", "r", ">", "k">>
  /\ ignoreTags = {}
  /\ output = <<"j", "\n", "\n", "k">>

\* C7: the entity decoding of preserveFormat changes no tag whose name is in
\* the ignore set: the preserved tags of the text before it stand in the
\* text after it as they were written, attributes included.
C7_DecodeLeavesPreservedTags ==
  [][pc = "decode" =>
       IsSubsequence(IgnoredTagsOf(html, ignoreTags),
                     IgnoredTagsOf(html', ignoreTags))]_vars

(***************************************************************************)
(* Ordered lists                                                           *)
(***************************************************************************)

\* the sequences of 1..n elements of S
SeqsUpTo(S, n) == UNION {[1..k -> S] : k \in 1..n}

\* the concatenation of the texts of a sequence
Concat(parts) == Join(parts, <<>>)

\* the most items in a list, the most lists in a document
MaxItems == 2

MaxLists == 2

\* what an item holds: text, or text with a line break in it
ItemContents == {<<"a">>, <<"b">>, <<"a", "<", "b", "r", ">", "b">>}

\* a document is a sequence of lists, a list a sequence of item contents
OlDocuments == SeqsUpTo(SeqsUpTo(ItemContents, MaxItems), MaxLists)

\* <ol><li>item</li>...</ol> for every list of d
RenderOlDocument(d) ==
  Concat([k \in 1..Len(d) |->
            OlOpen \o Concat([j \in 1..Len(d[k]) |-> LiOpen \o d[k][j] \o LiClose])
                   \o OlClose])

OlIgnoreSets == {{}, {<<"b", "r">>}, {<<"l", "i">>}, {<<"o", "l">>}, {<<"p">>}}

\* a call preserveFormat({ html, ignoreTags }) on a document of ordered lists
InitOl ==
  /\ pc = "check"
  /\ html \in {RenderOlDocument(d) : d \in OlDocuments}
  /\ input = html
  /\ ignoreTags \in OlIgnoreSets
  /\ Idle({"html"})

SpecOl == InitOl /\ [][Next]_vars

\* 'N. ' + content + newline for every item, N counted from 1 in every list,
\* the content as the br pass left it
NumberedText(d, ig) ==
  Concat([k \in 1..Len(d) |->
            Concat([j \in 1..Len(d[k]) |->
                      NumberToString(j) \o <<".", " ">> \o ConvertBr(d[k][j], ig)
                        \o <<"\n">>])])

\* C8: when neither ol nor li is ignored, the ordered-list pass replaces every
\* item of every ol block, an item holding a converted line break included,
\* by 'N. ' + content + newline, N counting the items of its own block from 1.
C8_OrderedItemsNumbered ==
  (pc = "ul" /\ <<"o", "l">> \notin ignoreTags /\ <<"l", "i">> \notin ignoreTags) =>
    \A d \in OlDocuments :
      input = RenderOlDocument(d) => html = NumberedText(d, ignoreTags)

(***************************************************************************)
(* Tables                                                                  *)
(***************************************************************************)

\* the most cells in a row, the most rows in a table
MaxCells == 2

MaxRows == 2

\* what a cell holds: text or nothing
CellContents == {<<"a">>, <<"b">>, <<>>}

\* a table is a sequence of rows, a row a sequence of cell contents, one of
\* them at least holding text
TableDocuments ==
  SeqsUpTo({r \in SeqsUpTo(CellContents, MaxCells) : \E j \in 1..Len(r) : r[j] # <<>>},
           MaxRows)

\* <table><tr><td>cell</td>...</tr>...</table>, the cells of the first of
\* several rows written <th>
RenderTable(d) ==
  LET cell(k, c) == IF k = 1 /\ Len(d) > 1
                    THEN <<"<", "t", "h", ">">> \o c \o <<"<", "/", "t", "h", ">">>
                    ELSE <<"<", "t", "d", ">">> \o c \o <<"<", "/", "t", "d", ">">>
  IN TableOpen
       \o Concat([k \in 1..Len(d) |->
                    TrOpen \o Concat([j \in 1..Len(d[k]) |-> cell(k, d[k][j])])
                           \o TrClose])
       \o TableClose

TableIgnoreSets ==
  {{}, {<<"t", "d">>}, {<<"t", "r">>}, {<<"t", "a", "b", "l", "e">>}, {<<"p">>}}

\* a call preserveFormat({ html, ignoreTags }) on a table
InitTable ==
  /\ pc = "check"
  /\ html \in {RenderTable(d) : d \in TableDocuments}
  /\ input = html
  /\ ignoreTags \in TableIgnoreSets
  /\ Idle({"html"})

SpecTable == InitTable /\ [][Next]_vars

\* one line per row, the contents of its cells separated by tabs
TabbedText(d) ==
  Join([k \in 1..Len(d) |-> Join(d[k], <<"\t">>)], <<"\n">>)

\* C9: when table, tr, td and th are not ignored, the table pass turns every
\* row into one line holding the contents of its k cells, empty ones included,
\* in order and separated by exactly k - 1 tabs, the lines separated by newlines.
C9_RowsTabSeparated ==
  (pc = "strip" /\ ignoreTags \cap {<<"t", "a", "b", "l", "e">>, <<"t", "r">>,
                                     <<"t", "d">>, <<"t", "h">>} = {}) =>
    \A d \in TableDocuments : input = RenderTable(d) => html = TabbedText(d)

(***************************************************************************)
(* Blockquotes                                                             *)
(***************************************************************************)

\* the most lines in a blockquote
MaxLines == 3

\* what a line holds: text, nothing, text between spaces
LineContents == {<<"a">>, <<>>, <<" ", "b", " ">>}

\* a blockquote is a sequence of lines, one of them at least holding text
QuoteDocuments ==
  {d \in SeqsUpTo(LineContents, MaxLines) : \E k \in 1..Len(d) : d[k] # <<>>}

\* <blockquote>line<br>line...</blockquote>
RenderQuote(d) ==
  BlockquoteOpen \o Join(d, <<"<", "b", "r", ">">>) \o BlockquoteClose

QuoteIgnoreSets ==
  {{}, {<<"b", "r">>}, {<<"b", "l", "o", "c", "k", "q", "u", "o", "t", "e">>}, {<<"p">>}}

\* a call preserveFormat({ html, ignoreTags }) on a blockquote
InitQuote ==
  /\ pc = "check"
  /\ html \in {RenderQuote(d) : d \in QuoteDocuments}
  /\ input = html
  /\ ignoreTags \in QuoteIgnoreSets
  /\ Idle({"html"})

SpecQuote == InitQuote /\ [][Next]_vars

\* the elements of a sequence that are not the empty text, in their order
NonEmpty(parts) ==
  LET RECURSIVE keep(_)
      keep(k) == IF k > Len(parts) THEN <<>>
                 ELSE IF parts[k] = <<>> THEN keep(k + 1)
                 ELSE <<parts[k]>> \o keep(k + 1)
  IN keep(1)

\* C10: when blockquote is not ignored, the text the blockquote pass emits for
\* a block is made of its non-empty lines, each trimmed and prefixed with '> ':
\* apart from blank lines, the emitted lines are exactly these, so no line is
\* the bare prefix.
C10_OnlyNonEmptyLinesPrefixed ==
  (pc = "table" /\ <<"b", "l", "o", "c", "k", "q", "u", "o", "t", "e">> \notin ignoreTags) =>
    \A d \in QuoteDocuments :
      input = RenderQuote(d) =>
        NonEmpty(SplitNewline(html)) =
          LET lines == NonEmpty([k \in 1..Len(d) |-> Trim(d[k])])
          IN [k \in 1..Len(lines) |-> <<">", " ">> \o lines[k]]

(***************************************************************************)
(* Text without tags                                                       *)
(***************************************************************************)

\* the longest text, in pieces
MaxPieces == 3

\* text, white space, a run of three newlines, an entity, an ampersand and the
\* rest of an entity, a tag
Pieces ==
  {<<"a">>,
   <<" ">>,
   <<"\n">>,
   <<"\n", "\n", "\n", "b">>,
   <<"&", "a", "m", "p", ";">>,
   <<"&">>,
   <<"l", "t", ";">>,
   <<"<", "b", ">">>}

PlainIgnoreSets == {{}, {<<"b">>}}

\* a call preserveFormat({ html, ignoreTags }) on a text made of pieces
InitPlain ==
  /\ pc = "check"
  /\ html \in Concats(Pieces, MaxPieces)
  /\ input = html
  /\ ignoreTags \in PlainIgnoreSets
  /\ Idle({"html"})

SpecPlain == InitPlain /\ [][Next]_vars

\* s holds neither "<" nor ">": no tag under any reading
NoAngleBracket(s) == \A i \in 1..Len(s) : s[i] \notin {"<", ">"}

\* s holds none of &nbsp; &amp; &lt; &gt;, in any case
NoEntity(s) ==
  \A i \in 1..Len(s) :
    \A e \in {<<"&", "n", "b", "s", "p", ";">>, <<"&", "a", "m", "p", ";">>,
              <<"&", "l", "t", ";">>, <<"&", "g", "t", ";">>} : ~MatchLit(s, i, e)

\* s with every run of three or more newlines cut to two
Squeezed(s) ==
  LET RECURSIVE go(_, _)
      go(i, run) ==
        IF i > Len(s) THEN <<>>
        ELSE IF s[i] # "\n" THEN <<s[i]>> \o go(i + 1, 0)
        ELSE IF run >= 2 THEN go(i + 1, run + 1)
        ELSE <<"\n">> \o go(i + 1, run + 1)
  IN go(1, 0)

\* s from its first to its last character that is not white space
Stripped(s) ==
  LET black == {i \in 1..Len(s) : s[i] \notin WhiteSpace}
  IN IF black = {} THEN <<>>
     ELSE SubSeq(s, CHOOSE i \in black : \A j \in black : i <= j,
                    CHOOSE i \in black : \A j \in black : i >= j)

\* C4 as stated: on a text without tags preserveFormat returns the text, its
\* runs of three or more newlines cut to two and its ends trimmed.
C4_PlainTextUnchanged ==
  (pc = "done" /\ NoAngleBracket(input)) => output = Stripped(Squeezed(input))

\* C4 amended: on a text that holds no "<", no ">" and none of the four named
\* entities, preserveFormat returns the text, its runs of three or more
\* newlines cut to two and its ends trimmed, and returns that output unchanged
\* when applied to it again.
C4_PlainTextWithoutEntitiesUnchanged ==
  (pc = "done" /\ NoAngleBracket(input) /\ NoEntity(input)) =>
    /\ output = Stripped(Squeezed(input))
    /\ preserveFormat(output, ignoreTags) = output

\* C4 witness: a text without tags or entities, with white space at its ends
\* and three newlines in a row, came back trimmed and with two.
C4_Witness ==
  /\ pc = "done"
  /\ input = <<"a", "\n", "\n", "\n", "b", " ">>
  /\ output = <<"a", "\n", "\n", "b">>

(***************************************************************************)
(* A call wrapByWords(text, count)                                         *)
(***************************************************************************)

MaxWrapPieces == 5
MaxCount == 3

\* two words, a space, a newline
WrapPieces == {<<"a">>, <<"b", "c">>, <<" ">>, <<"\n">>}

InitWrap ==
  /\ pc = "wrap"
  /\ text \in Concats(WrapPieces, MaxWrapPieces)
  /\ count \in -1..MaxCount
  /\ Idle({"wrap"})

\* if (count <= 0) throw new Error('wrap count must be greater than 0')
WrapThrow ==
  /\ pc = "wrap"
  /\ count <= 0
  /\ thrown' = wrapByWords(text, count).thrown
  /\ pc' = "thrown"
  /\ UNCHANGED <<input, html, ignoreTags, preserveFormatting, wrapWords,
                 wrapLength, wrapper, text, count, output>>

\* the split, the loop and return lines.join('\n')
WrapReturn ==
  /\ pc = "wrap"
  /\ ~(count <= 0)
  /\ output' = wrapByWords(text, count).value
  /\ pc' = "done"
  /\ UNCHANGED <<input, html, ignoreTags, preserveFormatting, wrapWords,
                 wrapLength, wrapper, text, count, thrown>>

NextWrap ==
  \/ WrapThrow
  \/ WrapReturn

SpecWrap == InitWrap /\ [][NextWrap]_vars

\* the words of s: its maximal runs of characters that are not white space
WordsOf(s) ==
  LET RECURSIVE scan(_, _)
      scan(i, cur) ==
        IF i > Len(s) THEN (IF cur = <<>> THEN <<>> ELSE <<cur>>)
        ELSE IF s[i] \in WhiteSpace
        THEN (IF cur = <<>> THEN <<>> ELSE <<cur>>) \o scan(i + 1, <<>>)
        ELSE scan(i + 1, Append(cur, s[i]))
  IN scan(1, <<>>)

\* the texts of s between the occurrences of the character c
SplitAt(s, c) ==
  LET RECURSIVE scan(_, _)
      scan(i, cur) ==
        IF i > Len(s) THEN <<cur>>
        ELSE IF s[i] = c THEN <<cur>> \o scan(i + 1, <<>>)
        ELSE scan(i + 1, Append(cur, s[i]))
  IN scan(1, <<>>)

\* C5: for every text and every count > 0, wrapByWords returns the words of
\* the text in their order, none lost, added or split, on lines of exactly
\* count words but for the last line, which has 1 to count words; the words of
\* a line are joined by one space, the lines by one newline (a text without
\* words gives the empty text)
C5_WordsGroupedByCount ==
  (pc # "wrap" /\ count > 0) =>
    /\ pc = "done"
    /\ thrown = "none"
    /\ LET words == WordsOf(text)
           lines == SplitAt(output, "\n")
           rows  == [k \in 1..Len(lines) |-> SplitAt(lines[k], " ")]
       IN IF words = <<>>
          THEN output = <<>>
          ELSE /\ Concat(rows) = words
               /\ \A k \in 1..(Len(rows) - 1) : Len(rows[k]) = count
               /\ Len(rows[Len(rows)]) \in 1..count

\* three words on two lines of text come back as two and one
C5_Witness ==
  /\ pc = "done"
  /\ count = 2
  /\ text = <<"a", "\n", "b", "c", " ", "a">>
  /\ output = <<"a", " ", "b", "c", "\n", "a">>

(***************************************************************************)
(* A call textify({ html, preserveFormatting, ignoreTags, wrapLength,      *)
(* wrapWords })                                                            *)
(***************************************************************************)

MaxTextifyBlocks == 2
MaxWrap == 2

\* words, white space, emphasis, a custom element, a paragraph
TextifyFragments == {<<"a", " ", "b">>, <<" ">>, <<"<", "b", ">", "c", "<", "/", "b", ">">>, <<"<", "m", "y", "-", "t", "a", "g", ">", "d", "<", "/", "m", "y", "-", "t", "a", "g", ">">>, <<"<", "p", ">", "e", "<", "/", "p", ">">>}

TextifyIgnoreSets == {{}, {<<"b">>}, {<<"m", "y", "-", "t", "a", "g">>}}

\* undefined, or a number
Directives == {<<>>} \cup {<<n>> : n \in -1..MaxWrap}

InitTextify ==
  /\ pc = "textify"
  /\ html \in Concats(TextifyFragments, MaxTextifyBlocks)
  /\ input = html
  /\ ignoreTags \in TextifyIgnoreSets
  /\ preserveFormatting \in BOOLEAN
  /\ wrapWords \in Directives
  /\ wrapLength \in Directives
  /\ wrapper = "none"
  /\ Idle({"html", "textify"})

\* if (!html) return ''
TextifyEmpty ==
  /\ pc = "textify"
  /\ html = <<>>
  /\ output' = <<>>
  /\ pc' = "done"
  /\ UNCHANGED <<input, html, ignoreTags, preserveFormatting, wrapWords,
                 wrapLength, wrapper, text, count, thrown>>

\* output = preserveFormat({ html: output, ignoreTags })
TextifyPreserve ==
  /\ pc = "textify"
  /\ html # <<>>
  /\ preserveFormatting
  /\ output' = preserveFormat(html, ignoreTags)
  /\ pc' = "wrapping"
  /\ UNCHANGED <<input, html, ignoreTags, preserveFormatting, wrapWords,
                 wrapLength, wrapper, text, count, thrown>>

\* the else branch: the tags stripped, the result trimmed
TextifyStrip ==
  /\ pc = "textify"
  /\ html # <<>>
  /\ ~preserveFormatting
  /\ output' = StripTags(html, ignoreTags)
  /\ pc' = "wrapping"
  /\ UNCHANGED <<input, html, ignoreTags, preserveFormatting, wrapWords,
                 wrapLength, wrapper, text, count, thrown>>

\* if (wrapWords && wrapWords > 0) output = wrapByWords(output, wrapWords)
TextifyWrapWords ==
  /\ pc = "wrapping"
  /\ IsPositive(wrapWords)
  /\ wrapper' = "words"
  /\ text' = output
  /\ count' = wrapWords[1]
  /\ thrown' = wrapByWords(output, wrapWords[1]).thrown
  /\ output' = wrapByWords(output, wrapWords[1]).value
  /\ pc' = IF thrown' = "none" THEN "done" ELSE "thrown"
  /\ UNCHANGED <<input, html, ignoreTags, preserveFormatting, wrapWords,
                 wrapLength>>

\* else if (wrapLength && wrapLength > 0)
\*   output = wrapByLength(output, wrapLength)
TextifyWrapLength ==
  /\ pc = "wrapping"
  /\ ~IsPositive(wrapWords)
  /\ IsPositive(wrapLength)
  /\ wrapper' = "length"
  /\ output' = wrapByLength(output, wrapLength[1])
  /\ pc' = "done"
  /\ UNCHANGED <<input, html, ignoreTags, preserveFormatting, wrapWords,
                 wrapLength, text, count, thrown>>

\* neither: return output
TextifyNoWrap ==
  /\ pc = "wrapping"
  /\ ~IsPositive(wrapWords)
  /\ ~IsPositive(wrapLength)
  /\ pc' = "done"
  /\ UNCHANGED <<input, html, ignoreTags, preserveFormatting, wrapWords,
                 wrapLength, wrapper, text, count, output, thrown>>

NextTextify ==
  \/ TextifyEmpty
  \/ TextifyPreserve
  \/ TextifyStrip
  \/ TextifyWrapWords
  \/ TextifyWrapLength
  \/ TextifyNoWrap

SpecTextify == InitTextify /\ [][NextTextify]_vars

\* the directive is a number greater than 0
StrictlyPositive(d) == d # <<>> /\ d[1] >= 1

\* C6: textify wraps by words when wrapWords > 0 (wrapLength given or not),
\* else by length when wrapLength > 0, else not at all; it never throws, for
\* any html and any directive, zero and negative included, and it returns the
\* empty text for the empty html under any options
C6_WrapOnlyWhenPositive ==
  /\ thrown = "none"
  /\ pc # "thrown"
  /\ pc = "done" =>
       /\ input = <<>> => (output = <<>> /\ wrapper = "none")
       /\ input # <<>> =>
            /\ wrapper = "words" <=> StrictlyPositive(wrapWords)
            /\ wrapper = "length" <=>
                 (~StrictlyPositive(wrapWords) /\ StrictlyPositive(wrapLength))
            /\ wrapper = "none" <=>
                 (~StrictlyPositive(wrapWords) /\ ~StrictlyPositive(wrapLength))

\* wrapWords is 0 and wrapLength is 1: the text is wrapped by length and
\* nothing is thrown
C6_Witness ==
  /\ pc = "done"
  /\ input = <<"a", " ", "b">>
  /\ wrapWords = <<0>>
  /\ wrapLength = <<1>>
  /\ wrapper = "length"
  /\ thrown = "none"
  /\ output = <<"a", "\n", "b">>

====
